---- MODULE Spec2Model ----
(***************************************************************************)
(* Order lifecycle and payment reconciliation of the restaurant            *)
(* application: the abandoned-order cleanup script                         *)
(* (scripts/cleanup-pending-orders.js), the PayPal webhook route, the GET  *)
(* and PATCH handlers of /api/orders/[id], the Stripe create-intent route  *)
(* and the checkout page's onSubmit, over the Order, OrderItem,            *)
(* OrderStatusHistory, MenuItem and Customer tables.                       *)
(*                                                                         *)
(* Money is kept in integer cents, time in milliseconds.  A prisma         *)
(* $transaction is one step: every statement in the transactions modelled  *)
(* here is a blind write or an atomic increment, so under the row locks of *)
(* the database their effects are those of the commit order.               *)
(***************************************************************************)
EXTENDS Integers, Sequences, FiniteSets, TLC

VARIABLES orders, history, stock, customers, now, sw, delivered, patch, patches,
          hookResp, getResp, dispatches, placed, lastIntent, page

vars == <<orders, history, stock, customers, now, sw, delivered, patch, patches,
          hookResp, getResp, dispatches, placed, lastIntent, page>>

\* the answer of the last order GET, the notification dispatches made, the
\* orders the checkout page has had created, the last create-intent call and
\* whether the customer is still on the checkout page
pageVars == <<getResp, dispatches, placed, lastIntent, page>>

dbVars == <<orders, history, stock, customers>>

----------------------------------------------------------------------------
(* Bounds *)

MaxTicks == 1
MaxWebhooks == 2
MaxPatches == 2
MaxSubmits == 2

----------------------------------------------------------------------------
(* Schema and fixed rows *)

NULL == "NULL"

\* A nullable INTEGER column: << >> is SQL NULL, <<n>> the number n
NullInt == << >>

Some(n) == <<n>>

OrderStatus ==
    {"PENDING", "ACCEPTED", "PREPARING", "READY", "OUT_FOR_DELIVERY",
     "DELIVERED", "CANCELLED", "REJECTED"}

PaymentStatus == {"PENDING", "COMPLETED", "FAILED", "REFUNDED"}

StaffRole == {"ADMIN", "KITCHEN", "WAITER"}

OrderIds == {"O1", "O2"}

UnknownOrderId == "O9"

MenuItemIds == {"M1", "M2", "M3"}

CustomerIds == {"CU1", "CU2"}

CaptureIds == {"CAP1", "CAP2"}

Sweepers == {"S1", "S2"}

MsPerMinute == 60 * 1000

StartTime == 15 * MsPerMinute

\* MenuItem.trackInventory (BOOLEAN NOT NULL DEFAULT false)
trackInventory == [m \in MenuItemIds |-> m \in {"M1", "M3"}]

\* OrderItem rows of each order: (menuItemId, quantity)
orderItems ==
    [o \in OrderIds |->
        IF o = "O1"
        THEN <<[menuItemId |-> "M1", quantity |-> 2],
               [menuItemId |-> "M2", quantity |-> 1]>>
        ELSE <<[menuItemId |-> "M1", quantity |-> 1],
               [menuItemId |-> "M3", quantity |-> 3]>>]

\* What the checkout page holds when an order is submitted: the cart's
\* subtotal and the delivery fee in cents, the tax and service-fee rates of the
\* settings store in hundredths, the tip percentage of the form (-1: custom
\* tip selected and nothing entered)
Checkouts ==
    [subtotal : {2500}, taxRate : {10}, settingsServiceFee : {8},
     tipPercentage : {-1, 12}, deliveryFee : {0, 500}]

\* the checkout each order of the database was submitted from
OrderCheckout ==
    [o \in OrderIds |->
        IF o = "O1"
        THEN [subtotal |-> 2500, taxRate |-> 10, settingsServiceFee |-> 8,
              tipPercentage |-> 12, deliveryFee |-> 500]
        ELSE [subtotal |-> 1000, taxRate |-> 10, settingsServiceFee |-> 8,
              tipPercentage |-> 2, deliveryFee |-> 0]]

\* amount * rate for a rate in hundredths
Times(amount, rate) == (amount * rate) \div 100

checkoutTip(c) ==
    IF c.tipPercentage >= 0 THEN (c.subtotal * c.tipPercentage) \div 100 ELSE 0

\* the total with the delivery fee left out
checkoutTotalNoDelivery(c) ==
    c.subtotal + Times(c.subtotal, c.taxRate)
      + Times(c.subtotal, c.settingsServiceFee) + checkoutTip(c)

\* the total the page shows and submits
checkoutTotal(c) ==
    c.subtotal + Times(c.subtotal, c.taxRate)
      + Times(c.subtotal, c.settingsServiceFee) + c.deliveryFee + checkoutTip(c)

\* the monetary fields of the body the page posts to /api/orders
baseOrderData(c) ==
    [subtotal |-> c.subtotal,
     taxAmount |-> Times(c.subtotal, c.taxRate),
     serviceFee |-> Times(c.subtotal, c.settingsServiceFee),
     tipAmount |-> checkoutTip(c),
     discountAmount |-> 0,
     totalAmount |-> checkoutTotal(c),
     deliveryFee |-> c.deliveryFee]

\* orderService.createOrder: the posted amounts stored on a PENDING order
createOrder(data, customerId, created) ==
    [status |-> "PENDING", paymentStatus |-> "PENDING", paymentIntentId |-> NULL,
     createdAt |-> created, customerId |-> customerId,
     subtotal |-> data.subtotal, taxAmount |-> data.taxAmount,
     serviceFee |-> data.serviceFee, tipAmount |-> data.tipAmount,
     discountAmount |-> data.discountAmount, deliveryFee |-> data.deliveryFee,
     totalAmount |-> data.totalAmount]

\* Order.totalAmount of a submitted order, in cents
OrderTotal == [o \in OrderIds |-> checkoutTotal(OrderCheckout[o])]

\* Order.customerId
OrderCustomer == [o \in OrderIds |-> "CU1"]

\* An order as the database defaults leave it at insertion
NewOrder(o, created) ==
    createOrder(baseOrderData(OrderCheckout[o]), OrderCustomer[o], created)

\* An order as prisma/seed.ts inserts it
SeededOrder(o, created) ==
    [status |-> "DELIVERED", paymentStatus |-> "COMPLETED", paymentIntentId |-> NULL,
     createdAt |-> created, customerId |-> OrderCustomer[o],
     subtotal |-> 2500, taxAmount |-> 250, serviceFee |-> 200, tipAmount |-> 300,
     discountAmount |-> 0, deliveryFee |-> 0, totalAmount |-> 3250]

\* The history row written with a new order
InitialHistory(ord) ==
    IF ord.status = "PENDING"
    THEN <<[status |-> "PENDING", note |-> NULL, createdBy |-> ord.customerId]>>
    ELSE << >>

HistoryRow(status, note, createdBy) ==
    [status |-> status, note |-> note, createdBy |-> createdBy]

\* no create-intent call has been made
NoIntent == [called |-> FALSE]

\* the PATCH route between requests; resp is the HTTP status of the last
\* answer, 0 before the first
IdlePatch(resp) == [pc |-> "idle", resp |-> resp, error |-> NULL]

\* the PATCH route after an answer that carries an error message
Refusal(resp, error) == [pc |-> "idle", resp |-> resp, error |-> error]

----------------------------------------------------------------------------
(* Helpers *)

RECURSIVE Perms(_)
Perms(S) ==
    IF S = {} THEN { << >> }
    ELSE UNION {{<<x>> \o p : p \in Perms(S \ {x})} : x \in S}

\* The guard of both restore loops: the item's menu item tracks inventory
\* and has a stock quantity
Restorable(item) ==
    item.menuItem.trackInventory /\ item.menuItem.stockQuantity # NullInt

RECURSIVE SumQty(_, _)
\* the quantity the restorable rows of items carry for menu item m
SumQty(items, m) ==
    IF items = << >> THEN 0
    ELSE (IF Head(items).menuItemId = m /\ Restorable(Head(items))
          THEN Head(items).quantity ELSE 0) + SumQty(Tail(items), m)

\* UPDATE "MenuItem" SET "stockQuantity" = "stockQuantity" + q
Increment(v, q) == IF v = NullInt THEN NullInt ELSE Some(v[1] + q)

\* include: { menuItem: true } on the rows of an order, read from stk
WithMenuItem(items, stk) ==
    [i \in DOMAIN items |->
        [menuItemId |-> items[i].menuItemId, quantity |-> items[i].quantity,
         menuItem |-> [trackInventory |-> trackInventory[items[i].menuItemId],
                       stockQuantity |-> stk[items[i].menuItemId]]]]

\* MenuItem.stockQuantity and the Customer aggregates before any operation
InitStock == [m \in MenuItemIds |-> IF m = "M3" THEN NullInt ELSE Some(5)]

InitCustomers ==
    [c \in CustomerIds |->
        IF c = "CU1" THEN [totalOrders |-> 2, totalSpent |-> 4950]
        ELSE [totalOrders |-> 0, totalSpent |-> 0]]

----------------------------------------------------------------------------
Init ==
    /\ \E c1 \in {0, MsPerMinute}, seeded \in BOOLEAN :
          orders = [o \in OrderIds |->
                      IF o = "O1" THEN NewOrder(o, c1)
                      ELSE IF seeded THEN SeededOrder(o, 0) ELSE NewOrder(o, 0)]
    /\ history = [o \in OrderIds |-> InitialHistory(orders[o])]
    /\ stock = InitStock
    /\ customers = InitCustomers
    /\ now = StartTime
    /\ sw = [s \in Sweepers |-> [pc |-> "idle", abandonedOrders |-> << >>,
                                 idx |-> 1, error |-> FALSE]]
    /\ delivered = 0
    /\ patch = IdlePatch(0)
    /\ patches = 0
    /\ hookResp = 0
    /\ getResp = 0
    /\ dispatches = 0
    /\ placed = << >>
    /\ lastIntent = NoIntent
    /\ page = "form"

\* The wall clock (Date.now()) advances
Tick ==
    /\ now < StartTime + MaxTicks * MsPerMinute
    /\ now' = now + MsPerMinute
    /\ UNCHANGED <<orders, history, stock, customers, sw, delivered, patch, patches, hookResp, pageVars>>

----------------------------------------------------------------------------
(* Abandoned Order Sweeper: cleanupPendingOrders *)

\* a threshold of thirty minutes
thirtyMinutesAgo(t) == t - 30 * 60 * 1000

fifteenMinutesAgo(t) == t - 15 * 60 * 1000

\* the where clause with lte in place of lt
IsAbandonedLte(ord, t) ==
    /\ ord.status = "PENDING"
    /\ ord.paymentStatus = "PENDING"
    /\ ord.createdAt <= fifteenMinutesAgo(t)

\* the where clause of the findMany
IsAbandoned(ord, t) ==
    /\ ord.status = "PENDING"
    /\ ord.paymentStatus = "PENDING"
    /\ ord.createdAt < fifteenMinutesAgo(t)

\* one row of the findMany result, with its included relations
Snapshot(o) ==
    [id |-> o, status |-> orders[o].status,
     paymentStatus |-> orders[o].paymentStatus,
     createdAt |-> orders[o].createdAt,
     customerId |-> orders[o].customerId,
     totalAmount |-> orders[o].totalAmount,
     orderItems |-> WithMenuItem(orderItems[o], stock)]

\* the select: the rows come back in an order the query does not fix
cleanupSelect(s) ==
    /\ sw[s].pc = "idle"
    /\ \E list \in Perms({o \in OrderIds : IsAbandoned(orders[o], now)}) :
          sw' = [sw EXCEPT ![s] =
                   [pc |-> IF list = << >> THEN "done" ELSE "loop",
                    abandonedOrders |-> [i \in DOMAIN list |-> Snapshot(list[i])],
                    idx |-> 1, error |-> FALSE]]
    /\ UNCHANGED <<orders, history, stock, customers, now, delivered, patch, patches, hookResp, pageVars>>

\* the restore loop of the cancel transaction, over the selected rows
cleanupRestore(stk, items) ==
    [m \in MenuItemIds |-> Increment(stk[m], SumQty(items, m))]

\* the customer update without the totalOrders decrement
cleanupCustomerSpentOnly(cust, order) ==
    [cust EXCEPT ![order.customerId].totalSpent = @ - order.totalAmount]

\* the customer update of the cancel transaction
cleanupCustomer(cust, order) ==
    [cust EXCEPT ![order.customerId] =
        [totalOrders |-> @.totalOrders - 1,
         totalSpent |-> @.totalSpent - order.totalAmount]]

\* position of the run after the transaction of row idx committed
cleanupAdvance(run) ==
    [run EXCEPT !.idx = @ + 1,
                !.pc = IF run.idx = Len(run.abandonedOrders) THEN "done" ELSE "loop"]

\* one iteration of the loop: the cancel transaction of row idx commits
cleanupCancel(s) ==
    /\ sw[s].pc = "loop"
    /\ LET order == sw[s].abandonedOrders[sw[s].idx] IN
          /\ orders' = [orders EXCEPT ![order.id].status = "CANCELLED"]
          /\ history' = [history EXCEPT ![order.id] = Append(@,
                HistoryRow("CANCELLED",
                  "Order cancelled automatically - payment not completed within 15 minutes",
                  "SYSTEM"))]
          /\ stock' = cleanupRestore(stock, order.orderItems)
          /\ customers' = cleanupCustomer(customers, order)
    /\ sw' = [sw EXCEPT ![s] = cleanupAdvance(sw[s])]
    /\ UNCHANGED <<now, delivered, patch, patches, hookResp, pageVars>>

\* position of the run after a statement threw: the catch block, then finally
cleanupCatch(run) == [run EXCEPT !.pc = "done", !.error = TRUE]

\* the statements of a transaction callback, in the order both the cleanup
\* script and the refund handler run them
TxSteps == {"order", "history", "stock", "customer"}

\* the statements that have run when statement step throws
RanBefore(step) ==
    CASE step = "order" -> {}
      [] step = "history" -> {"order"}
      [] step = "stock" -> {"order", "history"}
      [] step = "customer" -> {"order", "history", "stock"}

\* the four tables as the transaction finds them
Database ==
    [orders |-> orders, history |-> history, stock |-> stock, customers |-> customers]

\* the writes made before the throw kept
transactionKeepsWrites(before, partial) == partial

\* prisma.$transaction with a callback that throws: the writes the callback
\* made are rolled back
transaction(before, partial) == before

\* the tables inside the cancel transaction of row order when statement
\* step throws
cleanupPartial(order, step) ==
    [orders |-> IF "order" \in RanBefore(step)
                THEN [orders EXCEPT ![order.id].status = "CANCELLED"] ELSE orders,
     history |-> IF "history" \in RanBefore(step)
                 THEN [history EXCEPT ![order.id] = Append(@,
                        HistoryRow("CANCELLED",
                          "Order cancelled automatically - payment not completed within 15 minutes",
                          "SYSTEM"))]
                 ELSE history,
     stock |-> IF "stock" \in RanBefore(step)
               THEN cleanupRestore(stock, order.orderItems) ELSE stock,
     customers |-> customers]

\* the cancel transaction of row idx throws at one of its statements
cleanupCancelFails(s) ==
    /\ sw[s].pc = "loop"
    /\ sw' = [sw EXCEPT ![s] = cleanupCatch(sw[s])]
    /\ \E step \in TxSteps :
          LET after == transaction(Database,
                         cleanupPartial(sw[s].abandonedOrders[sw[s].idx], step))
          IN  /\ orders' = after.orders
              /\ history' = after.history
              /\ stock' = after.stock
              /\ customers' = after.customers
    /\ UNCHANGED <<now, delivered, patch, patches, hookResp, pageVars>>

cleanupPendingOrders(s) ==
    \/ cleanupSelect(s)
    \/ cleanupCancel(s)
    \/ cleanupCancelFails(s)

\* the scheduler starts the script again after a run has ended
cleanupScheduled(s) ==
    /\ sw[s].pc = "done"
    /\ sw' = [sw EXCEPT ![s] = [pc |-> "idle", abandonedOrders |-> << >>,
                                idx |-> 1, error |-> FALSE]]
    /\ UNCHANGED <<orders, history, stock, customers, now, delivered, patch, patches, hookResp, pageVars>>

----------------------------------------------------------------------------
(* PayPal webhook route *)

EventTypes ==
    {"PAYMENT.CAPTURE.COMPLETED", "PAYMENT.CAPTURE.DENIED",
     "PAYMENT.CAPTURE.REFUNDED", "CHECKOUT.ORDER.APPROVED"}

\* the parsed request bodies; custom_id may be absent or name no order
Events ==
    [event_type : EventTypes,
     resource : [id : CaptureIds,
                 custom_id : OrderIds \cup {UnknownOrderId, NULL}]]

Event(type, customId, captureId) ==
    [event_type |-> type, resource |-> [id |-> captureId, custom_id |-> customId]]

\* a statement on the order row throws: the row does not exist, or the
\* database fails the statement; the transaction is rolled back
Throws(customId, dbFails) == dbFails \/ customId \notin OrderIds

\* the order update without the capture id
capturedOrderNoId(ord, captureId) ==
    [ord EXCEPT !.paymentStatus = "COMPLETED", !.status = "ACCEPTED"]

\* the order update without the payment status
capturedOrderStatusOnly(ord, captureId) ==
    [ord EXCEPT !.paymentIntentId = captureId, !.status = "ACCEPTED"]

\* the order update skipped for an order already refunded
capturedOrderUnlessRefunded(ord, captureId) ==
    IF ord.paymentStatus = "REFUNDED" THEN ord
    ELSE [ord EXCEPT !.paymentStatus = "COMPLETED",
                     !.paymentIntentId = captureId,
                     !.status = "ACCEPTED"]

\* the data of the order update of handlePaymentCaptured
capturedOrder(ord, captureId) ==
    [ord EXCEPT !.paymentStatus = "COMPLETED",
                !.paymentIntentId = captureId,
                !.status = "ACCEPTED"]

handlePaymentCaptured(event, dbFails) ==
    LET captureId == event.resource.id
        customId == event.resource.custom_id
    IN  IF customId = NULL \/ Throws(customId, dbFails)
        THEN UNCHANGED dbVars
        ELSE /\ orders' = [orders EXCEPT ![customId] = capturedOrder(@, captureId)]
             /\ history' = [history EXCEPT ![customId] = Append(@,
                    HistoryRow("ACCEPTED", "Payment completed via PayPal webhook",
                               "SYSTEM"))]
             /\ UNCHANGED <<stock, customers>>

\* the order update with the order rejected as well
deniedOrderRejected(ord) ==
    [ord EXCEPT !.paymentStatus = "FAILED", !.status = "REJECTED"]

\* the data of the order update of handlePaymentDenied
deniedOrder(ord) == [ord EXCEPT !.paymentStatus = "FAILED"]

handlePaymentDenied(event, dbFails) ==
    LET customId == event.resource.custom_id
    IN  IF customId = NULL \/ Throws(customId, dbFails)
        THEN UNCHANGED dbVars
        ELSE /\ orders' = [orders EXCEPT ![customId] = deniedOrder(@)]
             /\ UNCHANGED <<history, stock, customers>>

\* the restore loop of the refund transaction, over the rows it reads
refundRestore(stk, customId) ==
    [m \in MenuItemIds |->
        Increment(stk[m], SumQty(WithMenuItem(orderItems[customId], stk), m))]

\* the customer update of the Sweeper in place of the refund's
refundCustomerAndCount(cust, customId, totalAmount) ==
    [c \in CustomerIds |->
        IF c = orders[customId].customerId
        THEN [totalOrders |-> cust[c].totalOrders - 1,
              totalSpent |-> cust[c].totalSpent - totalAmount]
        ELSE cust[c]]

\* customer.updateMany where orders: { some: { id: customId } }
refundCustomer(cust, customId, totalAmount) ==
    [c \in CustomerIds |->
        IF c = orders[customId].customerId
        THEN [cust[c] EXCEPT !.totalSpent = @ - totalAmount]
        ELSE cust[c]]

\* the tables inside the refund transaction when statement step throws
refundPartial(customId, step) ==
    [orders |-> IF "order" \in RanBefore(step)
                THEN [orders EXCEPT ![customId] =
                        [@ EXCEPT !.paymentStatus = "REFUNDED",
                                  !.status = "CANCELLED"]]
                ELSE orders,
     history |-> IF "history" \in RanBefore(step)
                 THEN [history EXCEPT ![customId] = Append(@,
                        HistoryRow("CANCELLED", "Payment refunded via PayPal", "SYSTEM"))]
                 ELSE history,
     stock |-> IF "stock" \in RanBefore(step)
               THEN refundRestore(stock, customId) ELSE stock,
     customers |-> customers]

handlePaymentRefunded(event, dbFails) ==
    LET customId == event.resource.custom_id
    IN  IF customId = NULL \/ customId \notin OrderIds
        THEN UNCHANGED dbVars
        ELSE IF Throws(customId, dbFails)
        THEN \E step \in TxSteps :
                LET after == transaction(Database, refundPartial(customId, step))
                IN  /\ orders' = after.orders
                    /\ history' = after.history
                    /\ stock' = after.stock
                    /\ customers' = after.customers
        ELSE LET order == [totalAmount |-> orders[customId].totalAmount] IN
             /\ orders' = [orders EXCEPT ![customId] =
                    [@ EXCEPT !.paymentStatus = "REFUNDED",
                              !.status = "CANCELLED"]]
             /\ history' = [history EXCEPT ![customId] = Append(@,
                    HistoryRow("CANCELLED", "Payment refunded via PayPal", "SYSTEM"))]
             /\ stock' = refundRestore(stock, customId)
             /\ customers' = refundCustomer(customers, customId, order.totalAmount)

\* the handler the switch calls for the event rethrows an error
HandlerThrows(event, dbFails) ==
    /\ event.event_type \in {"PAYMENT.CAPTURE.COMPLETED", "PAYMENT.CAPTURE.DENIED",
                              "PAYMENT.CAPTURE.REFUNDED"}
    /\ event.resource.custom_id # NULL
    /\ Throws(event.resource.custom_id, dbFails)

\* the status with the catch block answering 500
webhookStatus500(threw) == IF threw THEN 500 ELSE 200

\* the status POST answers with, after the switch or from the catch block
webhookStatus(threw) == IF threw THEN 200 ELSE 200

\* POST of the webhook route: one delivery of a parsed event
POST(event, dbFails) ==
    /\ delivered < MaxWebhooks
    /\ delivered' = delivered + 1
    /\ CASE event.event_type = "PAYMENT.CAPTURE.COMPLETED" ->
               handlePaymentCaptured(event, dbFails)
          [] event.event_type = "PAYMENT.CAPTURE.DENIED" ->
               handlePaymentDenied(event, dbFails)
          [] event.event_type = "PAYMENT.CAPTURE.REFUNDED" ->
               handlePaymentRefunded(event, dbFails)
          [] OTHER -> UNCHANGED dbVars
    /\ hookResp' = webhookStatus(HandlerThrows(event, dbFails))
    /\ UNCHANGED <<now, sw, patch, patches, pageVars>>

\* POST with a body JSON.parse rejects
POSTUnparsable ==
    /\ delivered < MaxWebhooks
    /\ delivered' = delivered + 1
    /\ hookResp' = webhookStatus(TRUE)
    /\ UNCHANGED <<orders, history, stock, customers, now, sw, patch, patches, pageVars>>

----------------------------------------------------------------------------
(* PATCH /api/orders/[id] *)

NoSession == [id |-> NULL, role |-> NULL]

\* the sessions getServerSession can return: none, a customer, a staff member
Sessions ==
    {NoSession}
      \cup [id : CustomerIds, role : {"CUSTOMER"}]
      \cup [id : {"ST1"}, role : StaffRole]

\* request bodies: a status (possibly not one of the enum) and an optional note
Bodies == [status : OrderStatus \cup {"BOGUS"}, note : {NULL, "note"}]

\* orderService.updateOrderStatus: the status write, the history row and,
\* for a first CANCELLED / REJECTED of an order not yet refunded, the reversal
\* of inventory and customer statistics, in one transaction
updateOrderStatus(orderId, data, actorId) ==
    LET prev == orders[orderId]
        reverse == /\ data.status \in {"CANCELLED", "REJECTED"}
                   /\ prev.status \notin {"CANCELLED", "REJECTED"}
                   /\ prev.paymentStatus # "REFUNDED"
    IN  /\ orders' = [orders EXCEPT ![orderId].status = data.status]
        /\ history' = [history EXCEPT ![orderId] = Append(@,
               HistoryRow(data.status, data.note, actorId))]
        /\ stock' = IF reverse
                    THEN [m \in MenuItemIds |-> Increment(stock[m],
                            SumQty(WithMenuItem(orderItems[orderId], stock), m))]
                    ELSE stock
        /\ customers' = IF reverse
                        THEN [customers EXCEPT ![prev.customerId] =
                                [totalOrders |-> @.totalOrders - 1,
                                 totalSpent |-> @.totalSpent - prev.totalAmount]]
                        ELSE customers

\* every signed-in caller counted as staff
isStaffAnyRole(session) == session.role # NULL

isStaff(session) == session.role \in StaffRole

\* the statuses a customer cancellation is let through in, PREPARING included
cancellableOrPreparing(status) == status \in {"PENDING", "ACCEPTED", "PREPARING"}

\* the statuses a customer cancellation is let through in
cancellable(status) == status \in {"PENDING", "ACCEPTED"}

isCustomerCancellation(body) == body.status = "CANCELLED" /\ body.note = NULL

\* what PATCH does up to its call of updateOrderStatus: the HTTP status it
\* answers with at once, or 0 when it goes on to the update
PatchCheck(session, orderId, body) ==
    IF session = NoSession THEN 401
    ELSE IF isCustomerCancellation(body)
    THEN IF orderId \notin OrderIds THEN 404
         ELSE IF orders[orderId].customerId # session.id THEN 403
         ELSE IF ~cancellable(orders[orderId].status) THEN 400
         ELSE 0
    ELSE IF ~isStaff(session) THEN 403
         ELSE IF orderId \notin OrderIds THEN 404
         ELSE IF body.status \notin OrderStatus THEN 400
         ELSE 0

\* the error message of the answer PatchCheck gives
PatchError(session, orderId, body) ==
    IF session = NoSession THEN "Unauthorized"
    ELSE IF isCustomerCancellation(body)
    THEN IF orderId \notin OrderIds THEN "Order not found"
         ELSE IF orders[orderId].customerId # session.id
         THEN "You can only cancel your own orders"
         ELSE "Order cannot be cancelled. It is already being prepared or completed."
    ELSE IF ~isStaff(session) THEN "Forbidden: Only staff can update order status"
         ELSE IF orderId \notin OrderIds THEN "Order not found"
         ELSE "Validation failed"

\* the data and actor PATCH hands to updateOrderStatus
PatchUpdate(session, orderId, body) ==
    [pc |-> "update", resp |-> 0, error |-> NULL,
     orderId |-> orderId, actorId |-> session.id,
     data |-> IF isCustomerCancellation(body)
              THEN [status |-> "CANCELLED", note |-> "Cancelled by customer"]
              ELSE [status |-> body.status, note |-> body.note]]

\* PATCH from its start to its first answer or to the point before the update
PatchBegin(session, orderId, body) ==
    /\ patch.pc = "idle"
    /\ patches < MaxPatches
    /\ patches' = patches + 1
    /\ patch' = IF PatchCheck(session, orderId, body) # 0
                THEN Refusal(PatchCheck(session, orderId, body),
                             PatchError(session, orderId, body))
                ELSE PatchUpdate(session, orderId, body)
    /\ UNCHANGED <<orders, history, stock, customers, now, sw, delivered, hookResp, pageVars>>

\* the calls of sendOrderStatusUpdate with a failed call made again
notifyRetried(importFails, sendFails) ==
    IF importFails THEN 0 ELSE IF sendFails THEN 2 ELSE 1

\* the calls of sendOrderStatusUpdate the notification block makes: none when
\* loading the service fails, else one, whose failure is logged
notifyCalls(importFails, sendFails) == IF importFails THEN 0 ELSE 1

\* PATCH from updateOrderStatus to its answer
PatchWrite(dbFails, importFails, sendFails) ==
    /\ patch.pc = "update"
    /\ IF dbFails
       THEN /\ patch' = Refusal(400, "update failed")
            /\ UNCHANGED <<dbVars, dispatches>>
       ELSE /\ updateOrderStatus(patch.orderId, patch.data, patch.actorId)
            /\ dispatches' = dispatches + notifyCalls(importFails, sendFails)
            /\ patch' = IdlePatch(200)
    /\ UNCHANGED <<now, sw, delivered, patches, hookResp, getResp, placed, lastIntent, page>>

\* a staff status update served by another invocation of PATCH while the
\* request held in patch is between its lookup and its update: the staff
\* branch from its role test to its answer 200
StaffPatch(session, orderId, body) ==
    /\ patches < MaxPatches
    /\ ~isCustomerCancellation(body)
    /\ PatchCheck(session, orderId, body) = 0
    /\ patches' = patches + 1
    /\ updateOrderStatus(orderId, PatchUpdate(session, orderId, body).data, session.id)
    /\ dispatches' = dispatches + notifyCalls(FALSE, FALSE)
    /\ UNCHANGED <<now, sw, delivered, patch, hookResp, getResp, placed, lastIntent, page>>

----------------------------------------------------------------------------
(* GET /api/orders/[id] *)

\* the lookup made after the ownership test
GetCheckOwnerFirst(session, orderId) ==
    IF session = NoSession THEN 401
    ELSE IF ~isStaff(session)
            /\ (orderId \notin OrderIds \/ orders[orderId].customerId # session.id)
    THEN 403
    ELSE IF orderId \notin OrderIds THEN 404
    ELSE 200

\* the HTTP status GET answers with
GetCheck(session, orderId) ==
    IF session = NoSession THEN 401
    ELSE IF orderId \notin OrderIds THEN 404
    ELSE IF ~isStaff(session) /\ orders[orderId].customerId # session.id THEN 403
    ELSE 200

\* GET: the order is read and returned, or the request refused
GET(session, orderId) ==
    /\ getResp' = GetCheck(session, orderId)
    /\ UNCHANGED <<dbVars, now, sw, delivered, patch, patches, hookResp,
                   dispatches, placed, lastIntent, page>>

----------------------------------------------------------------------------
(* Stripe create-intent route *)

LiveKey == "\"sk_live_1\""

\* the value column of the stripeSecretKey setting: the JSON encoding of the
\* key, or NULL when the row is missing or its value is empty
SettingValues == {NULL, "\"\"", "\"  \"", "\"sk_test_dummy\"", LiveKey}

\* JSON.parse of a stored setting value
JsonParse(value) ==
    CASE value = "\"\"" -> ""
      [] value = "\"  \"" -> "  "
      [] value = "\"sk_test_dummy\"" -> "sk_test_dummy"
      [] value = LiveKey -> "sk_live_1"

\* String.prototype.trim
Trim(str) == IF str = "  " THEN "" ELSE str

\* what getStripeInstance finds: whether a restaurant row exists, the setting
\* value (a setting row belongs to a restaurant), and whether a database
\* read throws
StripeEnvs ==
    {env \in [restaurant : BOOLEAN, value : SettingValues, dbFails : BOOLEAN] :
        ~env.restaurant => (env.value = NULL /\ ~env.dbFails)}

\* getStripeInstance: a client for the stored key, or NULL
getStripeInstance(env) ==
    IF env.dbFails THEN NULL
    ELSE IF ~env.restaurant THEN NULL
    ELSE IF env.value = NULL THEN NULL
    ELSE LET secretKey == JsonParse(env.value)
         IN  IF secretKey = "" \/ Trim(secretKey) = "" \/ secretKey = "sk_test_dummy"
             THEN NULL
             ELSE "Stripe"

NotConfigured == "Stripe is not configured. Please add your Stripe keys in Settings."

\* paymentService.createPaymentIntent: without a client the not-configured
\* error, else the provider's answer
createPaymentIntent(stripe, apiFails) ==
    IF stripe = NULL THEN [success |-> FALSE, error |-> NotConfigured]
    ELSE IF apiFails
    THEN [success |-> FALSE, error |-> "Failed to create payment intent"]
    ELSE [success |-> TRUE, error |-> NULL]

\* the answer of POST /api/payments/stripe/create-intent for a valid body
createIntentResponse(result) ==
    IF ~result.success /\ result.error = NotConfigured
    THEN [status |-> 201, success |-> TRUE, isDevelopmentMode |-> TRUE]
    ELSE IF ~result.success
    THEN [status |-> 400, success |-> FALSE, isDevelopmentMode |-> FALSE]
    ELSE [status |-> 201, success |-> TRUE, isDevelopmentMode |-> FALSE]

\* one call of the route, recorded with the setting it ran against and the
\* order id of its metadata
Intent(orderId, env, apiFails) ==
    [called |-> TRUE, orderId |-> orderId, value |-> env.value,
     response |-> createIntentResponse(
                     createPaymentIntent(getStripeInstance(env), apiFails))]

\* POST /api/payments/stripe/create-intent called on its own
createIntentPOST(env, apiFails) ==
    /\ lastIntent' = Intent(0, env, apiFails)
    /\ UNCHANGED <<dbVars, now, sw, delivered, patch, patches, hookResp,
                   getResp, dispatches, placed, page>>

----------------------------------------------------------------------------
(* Checkout page: onSubmit *)

\* the customer signed in on the checkout page
CheckoutCustomer == "CU2"

\* POST /api/orders from the page: the order is stored
placeOrder(c) == Append(placed, createOrder(baseOrderData(c), CheckoutCustomer, now))

\* the CASH branch
submitCash(c) ==
    /\ page = "form" /\ Len(placed) < MaxSubmits
    /\ placed' = placeOrder(c)
    /\ page' = "left"
    /\ UNCHANGED <<dbVars, now, sw, delivered, patch, patches, hookResp,
                   getResp, dispatches, lastIntent>>

\* the PAYPAL branch: the order, then the provider order; paypal is the
\* answer of /api/payments/paypal/create-order
submitPayPal(c, paypal) ==
    /\ page = "form" /\ Len(placed) < MaxSubmits
    /\ placed' = placeOrder(c)
    /\ page' = IF paypal = "fails" THEN "form" ELSE "left"
    /\ UNCHANGED <<dbVars, now, sw, delivered, patch, patches, hookResp,
                   getResp, dispatches, lastIntent>>

\* the STRIPE branch: the order, then the payment intent for that order, then
\* the card confirmation; provider is what the provider does
submitStripe(c, env, provider) ==
    /\ page = "form" /\ Len(placed) < MaxSubmits
    /\ LET paymentData == Intent(Len(placed) + 1, env, provider = "intentFails")
       IN  /\ placed' = placeOrder(c)
           /\ lastIntent' = paymentData
           /\ page' = IF ~paymentData.response.success THEN "form"
                      ELSE IF paymentData.response.isDevelopmentMode THEN "left"
                      ELSE IF provider = "confirmFails" THEN "form"
                      ELSE "left"
    /\ UNCHANGED <<dbVars, now, sw, delivered, patch, patches, hookResp,
                   getResp, dispatches>>

onSubmit ==
    \E c \in Checkouts :
       \/ submitCash(c)
       \/ \E paypal \in {"approve", "simulated", "fails"} : submitPayPal(c, paypal)
       \/ \E env \in StripeEnvs, provider \in {"ok", "intentFails", "confirmFails"} :
             submitStripe(c, env, provider)

----------------------------------------------------------------------------
\* one run of the cleanup script and the webhook route
Next ==
    \/ Tick
    \/ cleanupPendingOrders("S1")
    \/ \E event \in Events, dbFails \in BOOLEAN : POST(event, dbFails)
    \/ POSTUnparsable

Spec == Init /\ [][Next]_vars

\* the bodies the PATCH requests of SpecAll carry
SomeBodies == {b \in Bodies : b.status \in {"PREPARING", "CANCELLED", "BOGUS"}}

\* the first PATCH request
FirstPatch(session, orderId, body) ==
    patches = 0 /\ PatchBegin(session, orderId, body)

\* one run of the cleanup script, the webhook route and one PATCH request
NextAll ==
    \/ Tick
    \/ cleanupPendingOrders("S1")
    \/ \E event \in Events, dbFails \in BOOLEAN : POST(event, dbFails)
    \/ POSTUnparsable
    \/ \E session \in Sessions, orderId \in OrderIds \cup {UnknownOrderId},
          body \in SomeBodies : FirstPatch(session, orderId, body)
    \/ \E dbFails, importFails, sendFails \in BOOLEAN :
          PatchWrite(dbFails, importFails, sendFails)

SpecAll == Init /\ [][NextAll]_vars

\* the bodies the PATCH requests of SpecRoute carry: a staff update, a
\* cancellation without and with a note, a status outside the enum
RouteBodies ==
    {[status |-> "PREPARING", note |-> NULL], [status |-> "CANCELLED", note |-> NULL],
     [status |-> "CANCELLED", note |-> "note"], [status |-> "BOGUS", note |-> NULL]}

\* the order route alone: PATCH and GET requests of every caller
NextRoute ==
    \/ \E session \in Sessions, orderId \in OrderIds \cup {UnknownOrderId},
          body \in RouteBodies : PatchBegin(session, orderId, body)
    \/ \E dbFails, importFails, sendFails \in BOOLEAN :
          PatchWrite(dbFails, importFails, sendFails)
    \/ \E session \in Sessions, orderId \in OrderIds \cup {UnknownOrderId} :
          GET(session, orderId)

SpecRoute == Init /\ [][NextRoute]_vars

\* the webhook route alone
NextHooks ==
    \/ Tick
    \/ \E event \in Events, dbFails \in BOOLEAN : POST(event, dbFails)
    \/ POSTUnparsable

SpecHooks == Init /\ [][NextHooks]_vars

\* runs of the cleanup script alone
NextSweep ==
    \/ Tick
    \/ \E s \in Sweepers : cleanupPendingOrders(s)

SpecSweep == Init /\ [][NextSweep]_vars

\* the checkout page and the create-intent route
NextCheckout ==
    \/ Tick
    \/ onSubmit
    \/ \E env \in StripeEnvs, apiFails \in BOOLEAN : createIntentPOST(env, apiFails)

SpecCheckout == Init /\ [][NextCheckout]_vars

\* every operation that writes an order, each with the inputs it applies: the
\* cleanup script, the three webhook handlers, a staff update or a customer
\* cancellation, and a cash checkout
NextMoney ==
    \/ Tick
    \/ cleanupPendingOrders("S1")
    \/ \E type \in EventTypes \ {"CHECKOUT.ORDER.APPROVED"} :
          POST(Event(type, "O1", "CAP1"), FALSE)
    \/ \E session \in {[id |-> "ST1", role |-> "ADMIN"], [id |-> "CU1", role |-> "CUSTOMER"]},
          orderId \in OrderIds,
          body \in {[status |-> "PREPARING", note |-> NULL],
                    [status |-> "CANCELLED", note |-> NULL]} :
          FirstPatch(session, orderId, body)
    \/ PatchWrite(FALSE, FALSE, FALSE)
    \/ submitCash(OrderCheckout["O1"])

SpecMoney == Init /\ [][NextMoney]_vars

\* the cleanup script started again and again by its scheduler, and the
\* webhook route
NextLive ==
    \/ Tick
    \/ cleanupPendingOrders("S1")
    \/ cleanupScheduled("S1")
    \/ \E type \in EventTypes \ {"CHECKOUT.ORDER.APPROVED"}, o \in OrderIds :
          POST(Event(type, o, "CAP1"), FALSE)

\* the clock advances, the scheduler keeps starting the script, a started
\* run makes its select, and the cancel transaction of a run does not fail
\* every time it is tried; nothing obliges a webhook to be delivered
SpecLive ==
    /\ Init /\ [][NextLive]_vars
    /\ WF_vars(Tick)
    /\ WF_vars(cleanupScheduled("S1"))
    /\ WF_vars(cleanupSelect("S1"))
    /\ SF_vars(cleanupCancel("S1"))

\* the writers of an order other than staff: the cleanup script, the webhook
\* handlers and the cancellation requests of customers
NextNoStaff ==
    \/ Tick
    \/ cleanupPendingOrders("S1")
    \/ \E type \in EventTypes \ {"CHECKOUT.ORDER.APPROVED"}, o \in OrderIds :
          POST(Event(type, o, "CAP1"), FALSE)
    \/ \E orderId \in OrderIds :
          PatchBegin([id |-> OrderCustomer[orderId], role |-> "CUSTOMER"], orderId,
                     [status |-> "CANCELLED", note |-> NULL])
    \/ PatchWrite(FALSE, FALSE, FALSE)

SpecNoStaff == Init /\ [][NextNoStaff]_vars

\* the statuses a staff update of SpecRace asks for
RaceStatuses == {"PREPARING", "READY", "DELIVERED"}

\* a customer's cancellation of the own order O1 racing the writers of O1:
\* the cleanup script, the webhook handlers and staff updates
NextRace ==
    \/ Tick
    \/ cleanupPendingOrders("S1")
    \/ \E type \in EventTypes \ {"CHECKOUT.ORDER.APPROVED"} :
          POST(Event(type, "O1", "CAP1"), FALSE)
    \/ PatchBegin([id |-> "CU1", role |-> "CUSTOMER"], "O1",
                  [status |-> "CANCELLED", note |-> NULL])
    \/ PatchWrite(FALSE, FALSE, FALSE)
    \/ \E status \in RaceStatuses :
          StaffPatch([id |-> "ST1", role |-> "KITCHEN"], "O1",
                     [status |-> status, note |-> NULL])

SpecRace == Init /\ [][NextRace]_vars

----------------------------------------------------------------------------
(* Properties *)

RECURSIVE OrderedQty(_, _)
\* the quantity the rows items carry for menu item m
OrderedQty(items, m) ==
    IF items = << >> THEN 0
    ELSE (IF Head(items).menuItemId = m THEN Head(items).quantity ELSE 0)
         + OrderedQty(Tail(items), m)

RECURSIVE SumOver(_, _)
SumOver(f, S) ==
    IF S = {} THEN 0
    ELSE LET x == CHOOSE y \in S : TRUE IN f[x] + SumOver(f, S \ {x})

\* the order row idx of run s is about to cancel
CurrentRow(s) == sw[s].abandonedOrders[sw[s].idx]

IsPendingPending(ord) == ord.status = "PENDING" /\ ord.paymentStatus = "PENDING"

SweeperRow ==
    HistoryRow("CANCELLED",
      "Order cancelled automatically - payment not completed within 15 minutes",
      "SYSTEM")

RefundRow == HistoryRow("CANCELLED", "Payment refunded via PayPal", "SYSTEM")

CaptureRow == HistoryRow("ACCEPTED", "Payment completed via PayPal webhook", "SYSTEM")

Count(rows, row) == Cardinality({i \in DOMAIN rows : rows[i] = row})

\* C1: under the interleavings of Sweeper runs with webhook deliveries, no
\* order is ever CANCELLED with payment status COMPLETED.
C1_NeverCancelledPaid ==
    \A o \in OrderIds :
        ~(orders[o].status = "CANCELLED" /\ orders[o].paymentStatus = "COMPLETED")

\* C2: a PAYMENT.CAPTURE.COMPLETED delivery that repeats the capture already
\* stored on a COMPLETED order changes no order, history row, stock quantity
\* or customer aggregate.
C2_DuplicateCaptureNoOp ==
    [][\A o \in OrderIds, c \in CaptureIds :
          (/\ orders[o].paymentStatus = "COMPLETED"
           /\ orders[o].paymentIntentId = c
           /\ POST(Event("PAYMENT.CAPTURE.COMPLETED", o, c), FALSE))
          => UNCHANGED dbVars]_vars

\* C3: over any sequence of webhook deliveries, each order's line items are
\* added back to the stock at most once and its total is taken off the
\* customer's totalSpent at most once.
C3_ReversedAtMostOnce ==
    /\ \A m \in MenuItemIds :
          stock[m] # NullInt =>
            stock[m][1] <= InitStock[m][1]
                + SumOver([o \in OrderIds |-> OrderedQty(orderItems[o], m)], OrderIds)
    /\ \A c \in CustomerIds :
          customers[c].totalSpent >= InitCustomers[c].totalSpent
                - SumOver([o \in OrderIds |->
                             IF OrderCustomer[o] = c THEN orders[o].totalAmount ELSE 0],
                          OrderIds)

\* C4: every order the Sweeper's cancel transaction writes is PENDING with
\* payment status PENDING at the moment of the write.
C4_ConditionalWrite ==
    [][\A s \in Sweepers :
          cleanupCancel(s) => IsPendingPending(orders[CurrentRow(s).id])]_vars

\* C5: whatever the interleaving of two Sweeper runs, each order gets at most
\* one CANCELLED row from the Sweeper, each stock quantity is restored at most
\* once per order, and the customer's totalOrders and totalSpent are
\* decremented at most once per order.
C5_CancelledOnce ==
    /\ \A o \in OrderIds : Count(history[o], SweeperRow) <= 1
    /\ C3_ReversedAtMostOnce
    /\ \A c \in CustomerIds :
          customers[c].totalOrders >= InitCustomers[c].totalOrders
                - Cardinality({o \in OrderIds : OrderCustomer[o] = c})

\* the rows of its selection a finished run has attempted
Attempted(run) == (run.idx - 1) + (IF run.error THEN 1 ELSE 0)

\* C6: a finished Sweeper run has attempted the cancel transaction of every
\* order it selected, also when one of the transactions failed.
C6_AllAttempted ==
    \A s \in Sweepers :
        sw[s].pc = "done" => Attempted(sw[s]) = Len(sw[s].abandonedOrders)

\* the stock a reversal of order o leaves: the ordered quantity is added to
\* every menu item that tracks inventory and has a stock quantity
StockAfterRestore(o) ==
    [m \in MenuItemIds |->
        IF trackInventory[m] /\ stock[m] # NullInt
        THEN Some(stock[m][1] + OrderedQty(orderItems[o], m))
        ELSE stock[m]]

\* C7: a cancel transaction of the Sweeper on an order that is PENDING with
\* payment status PENDING sets its status to CANCELLED and changes no other
\* order field or order, appends one CANCELLED row created by SYSTEM, adds
\* the ordered quantities to the stock of the tracked menu items only, and
\* takes 1 off the customer's totalOrders and the order total off totalSpent.
C7_SweeperCancels ==
    [][\A s \in Sweepers :
          (cleanupCancel(s) /\ IsPendingPending(orders[CurrentRow(s).id])) =>
            LET o == CurrentRow(s).id
                c == orders[o].customerId
            IN  /\ orders' = [orders EXCEPT ![o].status = "CANCELLED"]
                /\ history' = [history EXCEPT ![o] = Append(@, SweeperRow)]
                /\ stock' = StockAfterRestore(o)
                /\ customers'[c].totalOrders = customers[c].totalOrders - 1
                /\ customers'[c].totalSpent
                      = customers[c].totalSpent - orders[o].totalAmount
                /\ \A d \in CustomerIds \ {c} : customers'[d] = customers[d]]_vars

\* C7 witness: one run alone has cancelled both abandoned orders
C7_Witness ==
    /\ delivered = 0
    /\ sw["S1"].pc = "done" /\ sw["S1"].idx = 3 /\ sw["S2"].pc = "idle"
    /\ \A o \in OrderIds :
          /\ orders[o].status = "CANCELLED" /\ orders[o].paymentStatus = "PENDING"
          /\ Len(history[o]) = 2 /\ history[o][2] = SweeperRow
    /\ stock = [m \in MenuItemIds |->
                  IF m = "M1" THEN Some(8) ELSE InitStock[m]]
    /\ customers["CU1"] = [totalOrders |-> 0, totalSpent |-> 0]

Ids(rows) == {rows[i].id : i \in DOMAIN rows}

\* C8: the select of a Sweeper run returns, once each, exactly the orders
\* that are PENDING with payment status PENDING and were created more than 15
\* minutes before the run; the run changes no order outside its selection.
C8_SelectsExactly ==
    [][\A s \in Sweepers :
          /\ (sw[s].pc = "idle" /\ sw'[s].pc # "idle") =>
                /\ Ids(sw'[s].abandonedOrders)
                      = {o \in OrderIds :
                           /\ orders[o].status = "PENDING"
                           /\ orders[o].paymentStatus = "PENDING"
                           /\ now - orders[o].createdAt > 15 * MsPerMinute}
                /\ Len(sw'[s].abandonedOrders)
                      = Cardinality(Ids(sw'[s].abandonedOrders))
          /\ cleanupPendingOrders(s) =>
                \A o \in OrderIds \ Ids(sw[s].abandonedOrders) :
                    orders'[o] = orders[o] /\ history'[o] = history[o]]_vars

\* C8 witness: a finished run selected and cancelled O2 and left alone O1,
\* which was PENDING / PENDING and exactly 15 minutes old at the select
C8_Witness ==
    /\ sw["S1"].pc = "done" /\ Ids(sw["S1"].abandonedOrders) = {"O2"}
    /\ sw["S2"].pc = "idle" /\ delivered = 0
    /\ orders["O2"].status = "CANCELLED"
    /\ IsPendingPending(orders["O1"])
    /\ now - orders["O1"].createdAt = 15 * MsPerMinute

\* C9: a PAYMENT.CAPTURE.REFUNDED delivery for an existing order sets its
\* payment status to REFUNDED and its status to CANCELLED, appends one
\* CANCELLED row, adds the ordered quantities to the stock of the tracked menu
\* items only, takes the order total off the customer's totalSpent and leaves
\* totalOrders and every other customer as they were.
C9_RefundEffects ==
    [][\A o \in OrderIds, cap \in CaptureIds :
          POST(Event("PAYMENT.CAPTURE.REFUNDED", o, cap), FALSE) =>
            LET c == orders[o].customerId
            IN  /\ orders' = [orders EXCEPT ![o] =
                       [@ EXCEPT !.paymentStatus = "REFUNDED", !.status = "CANCELLED"]]
                /\ history' = [history EXCEPT ![o] = Append(@, RefundRow)]
                /\ stock' = StockAfterRestore(o)
                /\ customers'[c].totalSpent
                      = customers[c].totalSpent - orders[o].totalAmount
                /\ customers'[c].totalOrders = customers[c].totalOrders
                /\ \A d \in CustomerIds \ {c} : customers'[d] = customers[d]]_vars

\* C9 witness: the seeded DELIVERED / COMPLETED order O2 has been refunded
C9_Witness ==
    /\ delivered = 1
    /\ \A s \in Sweepers : sw[s].pc = "idle"
    /\ orders["O2"].status = "CANCELLED" /\ orders["O2"].paymentStatus = "REFUNDED"
    /\ history["O2"] = <<RefundRow>>
    /\ stock = [m \in MenuItemIds |->
                  IF m = "M1" THEN Some(6) ELSE InitStock[m]]
    /\ customers["CU1"] = [totalOrders |-> 2, totalSpent |-> 1700]

\* C10: a PAYMENT.CAPTURE.COMPLETED delivery for an existing PENDING order
\* whose payment status is not COMPLETED leaves it COMPLETED and ACCEPTED with
\* the event's capture id stored and one ACCEPTED row created by SYSTEM
\* appended; and in every step that changes the stored capture id of an
\* order, the payment status, the status and the history row come with it.
C10_CaptureAtomic ==
    [][/\ \A o \in OrderIds, cap \in CaptureIds :
            (/\ orders[o].status = "PENDING"
             /\ orders[o].paymentStatus # "COMPLETED"
             /\ POST(Event("PAYMENT.CAPTURE.COMPLETED", o, cap), FALSE)) =>
               /\ orders' = [orders EXCEPT ![o] =
                      [@ EXCEPT !.paymentStatus = "COMPLETED",
                                !.paymentIntentId = cap,
                                !.status = "ACCEPTED"]]
               /\ history' = [history EXCEPT ![o] = Append(@, CaptureRow)]
               /\ UNCHANGED <<stock, customers>>
       /\ \A o \in OrderIds :
            (\/ orders'[o].paymentIntentId # orders[o].paymentIntentId
             \/ Count(history'[o], CaptureRow) # Count(history[o], CaptureRow)) =>
               /\ orders'[o].paymentIntentId \in CaptureIds
               /\ orders'[o].paymentStatus = "COMPLETED"
               /\ orders'[o].status = "ACCEPTED"
               /\ history'[o] = Append(history[o], CaptureRow)]_vars

\* C10 witness: the PENDING order O1 has been captured with CAP2
C10_Witness ==
    /\ delivered = 1
    /\ orders["O1"].status = "ACCEPTED" /\ orders["O1"].paymentStatus = "COMPLETED"
    /\ orders["O1"].paymentIntentId = "CAP2"
    /\ Len(history["O1"]) = 2 /\ history["O1"][2] = CaptureRow
    /\ stock = InitStock /\ customers = InitCustomers

\* C11: a PAYMENT.CAPTURE.DENIED delivery for an existing order sets the
\* order's payment status to FAILED and leaves the order's other fields, every
\* other order, every history, every stock quantity and every customer's
\* totals unchanged.
C11_DeniedOnlyFails ==
    [][\A o \in OrderIds, cap \in CaptureIds :
          POST(Event("PAYMENT.CAPTURE.DENIED", o, cap), FALSE) =>
            /\ orders'[o].paymentStatus = "FAILED"
            /\ orders'[o].status = orders[o].status
            /\ orders' = [orders EXCEPT ![o].paymentStatus = "FAILED"]
            /\ UNCHANGED <<history, stock, customers>>]_vars

\* C11 witness: the payment of the PENDING order O1 has been denied
C11_Witness ==
    /\ delivered = 1
    /\ orders["O1"].paymentStatus = "FAILED" /\ orders["O1"].status = "PENDING"
    /\ history["O1"] = InitialHistory(orders["O1"])
    /\ stock = InitStock /\ customers = InitCustomers

\* a delivery that cannot be applied: a handled event type whose correlation
\* id is missing or names no order, or an event type the switch does not handle
Inapplicable(event) ==
    \/ event.resource.custom_id \notin OrderIds
    \/ event.event_type \notin {"PAYMENT.CAPTURE.COMPLETED", "PAYMENT.CAPTURE.DENIED",
                                "PAYMENT.CAPTURE.REFUNDED"}

\* C12: a webhook delivery that cannot be applied (captured, denied or
\* refunded with an unknown or missing correlation id, an unhandled event
\* type, an unparsable body) is answered 200 and changes no order, history,
\* stock quantity or customer.
C12_InapplicableAcknowledged ==
    [][/\ \A event \in Events, dbFails \in BOOLEAN :
            (Inapplicable(event) /\ POST(event, dbFails)) =>
               hookResp' = 200 /\ UNCHANGED dbVars
       /\ POSTUnparsable => (hookResp' = 200 /\ UNCHANGED dbVars)]_vars

\* C12 witness: one delivery has been answered 200 and the database is as it
\* was when the delivery arrived
C12_Witness ==
    /\ delivered = 1 /\ hookResp = 200
    /\ \A s \in Sweepers : sw[s].pc = "idle"
    /\ \A o \in OrderIds :
          /\ orders[o].paymentIntentId = NULL
          /\ orders[o].status \in {"PENDING", "DELIVERED"}
          /\ orders[o].paymentStatus \in {"PENDING", "COMPLETED"}
          /\ history[o] = InitialHistory(orders[o])
    /\ stock = InitStock /\ customers = InitCustomers

\* the order was accepted by a capture and then cancelled by the Sweeper or
\* refunded, and no other order has been cancelled or refunded
AcceptedThenReversed(o) ==
    /\ Len(history[o]) = 3
    /\ history[o][2] = CaptureRow
    /\ history[o][3] \in {RefundRow, SweeperRow}
    /\ \A p \in OrderIds \ {o} :
          Count(history[p], RefundRow) = 0 /\ Count(history[p], SweeperRow) = 0

\* C13: round-trip restoration: once an order that was accepted has been
\* cancelled by the Sweeper or refunded, every menu item that tracks inventory
\* has the stock quantity it had immediately before the order was accepted
\* (no other order having touched the item).
C13_RoundTrip ==
    \A o \in OrderIds :
        AcceptedThenReversed(o) =>
            \A m \in MenuItemIds : trackInventory[m] => stock[m] = InitStock[m]

\* the body of a customer cancellation
CancelBody == [status |-> "CANCELLED", note |-> NULL]

\* the session is a signed-in caller without a staff role
NonStaff(session) == session # NoSession /\ session.role \notin StaffRole

\* the session is the customer of the existing order orderId
Owns(session, orderId) ==
    orderId \in OrderIds /\ session.id = orders[orderId].customerId

CannotBeCancelled ==
    "Order cannot be cancelled. It is already being prepared or completed."

\* C14: a cancellation requested by the order's customer (status CANCELLED,
\* no note) goes on to the update only when the order's status is PENDING or
\* ACCEPTED; in PREPARING or any later status it is answered 400 with the
\* already-being-prepared message and every order and history is unchanged;
\* and every "Cancelled by customer" history row is written to an order that
\* is PENDING or ACCEPTED.
C14_CancelOnlyEarly ==
    [][/\ \A session \in Sessions, o \in OrderIds :
            (/\ NonStaff(session) /\ Owns(session, o)
             /\ PatchBegin(session, o, CancelBody)) =>
               /\ UNCHANGED <<orders, history>>
               /\ IF orders[o].status \in {"PENDING", "ACCEPTED"}
                  THEN /\ patch'.pc = "update" /\ patch'.orderId = o
                       /\ patch'.data = [status |-> "CANCELLED",
                                         note |-> "Cancelled by customer"]
                  ELSE patch' = Refusal(400, CannotBeCancelled)
       /\ \A o \in OrderIds :
            (/\ history'[o] # history[o]
             /\ history'[o][Len(history'[o])].note = "Cancelled by customer") =>
               /\ orders[o].status \in {"PENDING", "ACCEPTED"}
               /\ orders'[o].status = "CANCELLED"]_vars

\* C14 witness: O1 was moved to PREPARING by staff and its customer's
\* cancellation has been refused, O1 staying PREPARING with two history rows
C14_Witness ==
    /\ patch = Refusal(400, CannotBeCancelled)
    /\ orders["O1"].status = "PREPARING" /\ Len(history["O1"]) = 2
    /\ orders["O2"].status = "PENDING" /\ Len(history["O2"]) = 1

\* what a signed-in caller without a staff role may do: read its own order,
\* and cancel its own order
OwnRead(session, orderId) == NonStaff(session) /\ Owns(session, orderId)

\* C15 as stated: a caller without a staff role reads only its own order and
\* reaches the update only by cancelling its own order; every other GET or
\* PATCH by it, and every request without a session, is answered 403 or 401
\* and changes no order state.
C15_RefusedWith403Or401 ==
    [][/\ patches' = patches =>
            \A session \in Sessions, orderId \in OrderIds \cup {UnknownOrderId} :
               (session.role \notin StaffRole /\ GET(session, orderId)) =>
                  /\ IF OwnRead(session, orderId) THEN getResp' = 200
                     ELSE getResp' \in {401, 403}
                  /\ UNCHANGED dbVars
       /\ patches' # patches =>
            \A session \in Sessions, orderId \in OrderIds \cup {UnknownOrderId},
               body \in RouteBodies :
               (session.role \notin StaffRole /\ PatchBegin(session, orderId, body)) =>
                  /\ UNCHANGED dbVars
                  /\ IF OwnRead(session, orderId) /\ body = CancelBody
                     THEN patch'.resp \in {0, 400}
                     ELSE patch'.pc = "idle" /\ patch'.resp \in {401, 403}]_vars

\* C15 amended: as stated, except that a GET or a cancellation naming no
\* order is answered 404; without a session every request is answered 401,
\* and for a signed-in caller without a staff role every other refusal is 403;
\* none of these requests changes order state, and the update is reached by
\* such a caller only with the cancellation of its own order.
C15_Authorization ==
    [][/\ patches' = patches =>
            \A session \in Sessions, orderId \in OrderIds \cup {UnknownOrderId} :
               (session.role \notin StaffRole /\ GET(session, orderId)) =>
                  /\ getResp' = IF session = NoSession THEN 401
                                ELSE IF orderId \notin OrderIds THEN 404
                                ELSE IF Owns(session, orderId) THEN 200
                                ELSE 403
                  /\ UNCHANGED dbVars
       /\ patches' # patches =>
            \A session \in Sessions, orderId \in OrderIds \cup {UnknownOrderId},
               body \in RouteBodies :
               (session.role \notin StaffRole /\ PatchBegin(session, orderId, body)) =>
                  /\ UNCHANGED dbVars
                  /\ IF OwnRead(session, orderId) /\ body = CancelBody
                     THEN \/ patch'.resp = 400 /\ patch'.pc = "idle"
                          \/ /\ patch'.pc = "update" /\ patch'.orderId = orderId
                             /\ patch'.data.status = "CANCELLED"
                     ELSE /\ patch'.pc = "idle"
                          /\ patch'.resp =
                               IF session = NoSession THEN 401
                               ELSE IF body = CancelBody /\ orderId \notin OrderIds
                               THEN 404
                               ELSE 403]_vars

\* C15 witness: a customer has been refused the read of an order and the
\* cancellation of an order that is not its own
C15_Witness ==
    /\ getResp = 403
    /\ patch = Refusal(403, "You can only cancel your own orders")
    /\ \A o \in OrderIds : history[o] = InitialHistory(orders[o])

\* C18: a PATCH whose status update succeeded keeps the new status persisted,
\* answers 200 and calls sendOrderStatusUpdate at most once, whether or not
\* loading the notification service or the call itself fails; a PATCH whose
\* status update failed calls it never; and no other step calls it.
C18_NotificationContained ==
    [][/\ \A dbFails, importFails, sendFails \in BOOLEAN :
            PatchWrite(dbFails, importFails, sendFails) =>
               IF dbFails
               THEN /\ dispatches' = dispatches
                    /\ patch'.resp # 200
                    /\ UNCHANGED dbVars
               ELSE /\ orders'[patch.orderId].status = patch.data.status
                    /\ Len(history'[patch.orderId]) = Len(history[patch.orderId]) + 1
                    /\ patch' = IdlePatch(200)
                    /\ dispatches' \in {dispatches, dispatches + 1}
                    /\ importFails => dispatches' = dispatches
       /\ dispatches' # dispatches =>
            /\ patch.pc = "update" /\ patch' = IdlePatch(200)
            /\ orders'[patch.orderId].status = patch.data.status]_vars

\* C18 witness: a staff PATCH has moved O1 to PREPARING and answered 200
\* although the notification service could not be loaded
C18_Witness ==
    /\ patches = 1 /\ patch = IdlePatch(200) /\ dispatches = 0
    /\ orders["O1"].status = "PREPARING" /\ Len(history["O1"]) = 2

\* C20 as stated: a GET or PATCH by a signed-in caller that names no order
\* is answered 404 and changes no state.
C20_UnknownIs404 ==
    [][/\ patches' = patches =>
            \A session \in Sessions \ {NoSession} :
               GET(session, UnknownOrderId) =>
                  getResp' = 404 /\ UNCHANGED dbVars
       /\ patches' # patches =>
            \A session \in Sessions \ {NoSession}, body \in RouteBodies :
               PatchBegin(session, UnknownOrderId, body) =>
                  patch'.pc = "idle" /\ patch'.resp = 404 /\ UNCHANGED dbVars]_vars

\* C20 amended: a GET or PATCH by a signed-in caller that names no order
\* changes no state and is answered 404, except a PATCH other than a
\* cancellation (status CANCELLED, no note) by a caller without a staff role,
\* which is answered 403.
C20_UnknownRefused ==
    [][/\ patches' = patches =>
            \A session \in Sessions \ {NoSession} :
               GET(session, UnknownOrderId) =>
                  getResp' = 404 /\ UNCHANGED dbVars
       /\ patches' # patches =>
            \A session \in Sessions \ {NoSession}, body \in RouteBodies :
               PatchBegin(session, UnknownOrderId, body) =>
                  /\ patch'.pc = "idle"
                  /\ patch'.resp = IF session.role \notin StaffRole /\ body # CancelBody
                                   THEN 403 ELSE 404
                  /\ UNCHANGED dbVars]_vars

\* C20 witness: a GET and a PATCH naming no order have both been answered
\* Order not found
C20_Witness ==
    /\ getResp = 404
    /\ patch = Refusal(404, "Order not found")
    /\ \A o \in OrderIds : history[o] = InitialHistory(orders[o])

\* C17: the create-intent route answers with the simulated (isDevelopmentMode)
\* success only when no usable secret key is stored: whenever the stored
\* setting is a real key, the answer is not the simulated one.
C17_SimulatedOnlyUnconfigured ==
    (lastIntent.called /\ lastIntent.response.isDevelopmentMode) =>
        lastIntent.value # LiveKey

\* C19: an order the checkout page has had created is not rolled back when
\* the charge creation or the card confirmation fails afterwards (it stays
\* stored, PENDING with payment status PENDING), and a submit made again
\* after such a failure creates no other order.
C19_RetrySameOrder ==
    [][/\ \A i \in DOMAIN placed :
            /\ i \in DOMAIN placed' /\ placed'[i] = placed[i]
            /\ IsPendingPending(placed'[i])
       /\ (page = "form" /\ Len(placed) >= 1) => placed' = placed]_vars

\* the total is the sum of the other amounts less the discount
Reconciles(ord) ==
    ord.totalAmount = ord.subtotal + ord.taxAmount + ord.serviceFee
                        + ord.tipAmount + ord.deliveryFee - ord.discountAmount

\* the monetary fields of an order
Money(ord) ==
    <<ord.subtotal, ord.taxAmount, ord.serviceFee, ord.tipAmount,
      ord.deliveryFee, ord.discountAmount, ord.totalAmount>>

C21_CancelWriteIsolated ==
    [][\A o \in OrderIds :
          (/\ history'[o] # history[o]
           /\ history'[o][Len(history'[o])].note = "Cancelled by customer") =>
             orders[o].status \in {"PENDING", "ACCEPTED"}]_vars

\* C22: a PAYMENT.CAPTURE.COMPLETED delivery for an existing order whose
\* status is not PENDING leaves the order's status as it was.
C22_CaptureOnlyAdvancesPending ==
    [][\A o \in OrderIds, cap \in CaptureIds :
          (/\ orders[o].status # "PENDING"
           /\ POST(Event("PAYMENT.CAPTURE.COMPLETED", o, cap), FALSE)) =>
             orders'[o].status = orders[o].status]_vars

\* the capture and the refund of order o have both been applied, once each,
\* and nothing else has been delivered
BothApplied(o) ==
    /\ delivered = 2
    /\ Count(history[o], CaptureRow) = 1
    /\ Count(history[o], RefundRow) = 1

\* C23: when a capture and a refund have both been delivered for one order,
\* in either order, the order's payment status is the one written by the
\* handler applied last: REFUNDED if the refund row is the last history row,
\* COMPLETED if the capture row is.
C23_LastWriterWins ==
    \A o \in OrderIds :
        BothApplied(o) =>
            LET last == history[o][Len(history[o])]
            IN  /\ last = RefundRow => orders[o].paymentStatus = "REFUNDED"
                /\ last = CaptureRow => orders[o].paymentStatus = "COMPLETED"

\* C23 witness: O1 was refunded and then captured, and is COMPLETED
C23_Witness ==
    /\ BothApplied("O1")
    /\ history["O1"][Len(history["O1"])] = CaptureRow
    /\ history["O1"][Len(history["O1"]) - 1] = RefundRow
    /\ orders["O1"].paymentStatus = "COMPLETED"

\* C24: a PATCH by an ADMIN, KITCHEN or WAITER session that names an
\* existing order and one of the eight statuses, with or without a note, goes
\* on to the update as a staff status update carrying the body's status and
\* note, whatever the order's current status.
C24_StaffUnrestricted ==
    [][patches' # patches =>
         \A session \in Sessions, o \in OrderIds, body \in Bodies :
            (/\ session.role \in StaffRole
             /\ body.status \in OrderStatus
             /\ PatchBegin(session, o, body)) =>
               /\ patch'.pc = "update"
               /\ patch'.orderId = o
               /\ patch'.actorId = session.id
               /\ patch'.data = [status |-> body.status, note |-> body.note]]_vars

\* C25: when a statement inside the Sweeper's per-order transaction or
\* inside the refund handler's transaction fails, none of the operation's
\* changes is visible afterwards: every order keeps its status and payment
\* status, no history row is added, and no stock quantity or customer
\* aggregate is changed.
C25_AllOrNothing ==
    [][/\ \A s \in Sweepers :
            (sw[s].pc = "loop" /\ sw'[s].error) =>
               /\ orders' = orders /\ history' = history
               /\ stock' = stock /\ customers' = customers
       /\ \A o \in OrderIds, cap \in CaptureIds :
            POST(Event("PAYMENT.CAPTURE.REFUNDED", o, cap), TRUE) =>
               /\ orders' = orders /\ history' = history
               /\ stock' = stock /\ customers' = customers]_vars

\* C25 witness: the run of S1 stopped on a failed cancel of O1 and a
\* delivery has been answered, O1 still PENDING / PENDING with its first
\* history row only, stock and customer totals as they were
C25_Witness ==
    /\ sw["S1"].error /\ sw["S1"].abandonedOrders[sw["S1"].idx].id = "O1"
    /\ delivered = 1 /\ hookResp = 200
    /\ IsPendingPending(orders["O1"])
    /\ history["O1"] = InitialHistory(orders["O1"])
    /\ stock = InitStock /\ customers = InitCustomers

\* C26: no webhook, Sweeper or PATCH step deletes an order row or a history
\* row or modifies a history row; and every step of a webhook handler or of
\* the Sweeper that changes an order's status appends to that order's
\* history exactly one row, which carries the new status.
C26_HistoryAppendOnly ==
    [][/\ DOMAIN orders' = DOMAIN orders
       /\ DOMAIN history' = DOMAIN history
       /\ \A o \in OrderIds :
            /\ Len(history'[o]) >= Len(history[o])
            /\ SubSeq(history'[o], 1, Len(history[o])) = history[o]
            /\ (/\ orders'[o].status # orders[o].status
                /\ (delivered' # delivered \/ sw' # sw)) =>
                  /\ Len(history'[o]) = Len(history[o]) + 1
                  /\ history'[o][Len(history'[o])].status = orders'[o].status]_vars

\* C26 witness: O1 was accepted by a capture and then cancelled by a
\* refund, each with its row appended after the row of its creation
C26_Witness ==
    /\ orders["O1"].status = "CANCELLED"
    /\ Len(history["O1"]) = 3
    /\ history["O1"][1].status = "PENDING"
    /\ history["O1"][2] = CaptureRow /\ history["O1"][3] = RefundRow

\* order o is PENDING / PENDING and was created more than 15 minutes ago
OlderThan15(o) ==
    IsPendingPending(orders[o]) /\ orders[o].createdAt + 15 * MsPerMinute < now

C28_CompletedNeverFailed ==
    [][\A o \in OrderIds :
          orders[o].paymentStatus = "COMPLETED" =>
             orders'[o].paymentStatus \in {"COMPLETED", "REFUNDED"}]_vars

\* C29: in every state reached through webhook deliveries, Sweeper runs
\* and customer cancellations, without staff updates, an order whose payment
\* status is REFUNDED has status CANCELLED.
C29_RefundedIsCancelled ==
    \A o \in OrderIds :
        orders[o].paymentStatus = "REFUNDED" => orders[o].status = "CANCELLED"

\* C29 witness: O1 was captured, cancelled by its customer and refunded
C29_Witness ==
    /\ orders["O1"].paymentStatus = "REFUNDED" /\ orders["O1"].status = "CANCELLED"
    /\ Len(history["O1"]) = 4
    /\ history["O1"][2] = CaptureRow
    /\ history["O1"][3].note = "Cancelled by customer"
    /\ history["O1"][4] = RefundRow

\* the customer totals before the first operation are those order creation
\* leaves: one per order and the order's totalAmount
CountedAtCreation ==
    \A c \in CustomerIds :
        LET own == {o \in OrderIds : orders[o].customerId = c}
        IN  /\ InitCustomers[c].totalOrders = Cardinality(own)
            /\ InitCustomers[c].totalSpent
                  = SumOver([o \in OrderIds |-> orders[o].totalAmount], own)

\* C30: when order creation has added 1 to the customer's totalOrders and
\* the order's totalAmount to the customer's totalSpent, no sequence of
\* webhook deliveries and Sweeper runs makes a customer's totalOrders or
\* totalSpent negative.
C30_TotalsNeverNegative ==
    CountedAtCreation =>
        \A c \in CustomerIds :
            customers[c].totalOrders >= 0 /\ customers[c].totalSpent >= 0

====
